---------------------------- MODULE Spec2Model ----------------------------
(***************************************************************************)
(* A model of weight.py: the serial scale handler (connect, read_weight,  *)
(* get_validated_weight, close), the sinks (save_to_csv,                  *)
(* upload_to_firebase), the slot computation (get_next_slot), the signal  *)
(* handler (cleanup_and_exit) and the main loop.                          *)
(*                                                                         *)
(* A weight is a Python float, kept as the IEEE 754 binary64 number it is: *)
(* float() rounds the decimal text of a line to the nearest float, and the *)
(* consistency gate subtracts and compares floats.  A line is a sequence   *)
(* of characters with code points below 256 (the characters a TLA+ string  *)
(* can hold).  An optional value (Python's None or a float) is a sequence  *)
(* of length 0 or 1.                                                       *)
(*                                                                         *)
(* Spec is the whole program; SpecLive is Spec with the main thread kept   *)
(* running.  SpecConnect, SpecRead, SpecUpload and SpecSlot follow         *)
(* connect, read_weight, upload_to_firebase and get_next_slot on their own *)
(* over all their inputs.  A termination signal is handled between two     *)
(* steps of the main thread; a step ends where the main thread waits (a    *)
(* sleep, a read with a timeout, a push over the network) and between the  *)
(* two assignments of connect() (self.serial, then self.failed), so that   *)
(* the signal meets every state of the scales and of the sinks the program *)
(* can be in when it is handled.                                           *)
(***************************************************************************)
EXTENDS Integers, Sequences, FiniteSets, TLC

\* ------------------------------------------------------------------------
\* Configuration (weight.py, lines 16-26)
\* ------------------------------------------------------------------------

\* SCALE_PORTS as shipped (lines 16-18): the one device path /dev/ttyUSB0.
\* A device path /dev/ttyUSB<k> is written k.
ShippedPorts == <<0>>

\* The longest SCALE_PORTS list the program is followed with.
NumScales == 2

\* The lists SCALE_PORTS is followed with: the shipped one, and the shipped
\* one with further device paths added.
PortLists == {[i \in 1..n |-> IF i = 1 THEN ShippedPorts[1] ELSE i - 1] : n \in 1..NumScales}

\* How many ticks of the main loop the model follows.
MaxTicks == 2

MAX_RECONNECT_ATTEMPTS == 5

\* RECONNECT_DELAY = 5 seconds
RECONNECT_DELAY == 5

\* WEIGHT_VALIDATION_THRESHOLD = 0.5 kg: the float 1 * 2^-1.
WEIGHT_VALIDATION_THRESHOLD ==
    [kind |-> "finite", neg |-> FALSE, mant |-> <<1>>, exp |-> -1]

MAX_VALIDATION_RETRIES == 10

\* read_weight(self, max_attempts=5, delay=0.2)
max_attempts == 5

\* upload_to_firebase: max_retries = 3
max_retries == 3

None == << >>

Some(v) == << v >>

IsNone(o) == Len(o) = 0

Val(o) == o[1]

Min(a, b) == IF a <= b THEN a ELSE b

SetMax(S) == CHOOSE i \in S : \A j \in S : j <= i

SetMin(S) == CHOOSE i \in S : \A j \in S : i <= j

\* ------------------------------------------------------------------------
\* Decimal digits
\* ------------------------------------------------------------------------

Digits == <<"0", "1", "2", "3", "4", "5", "6", "7", "8", "9">>

IsDigit(c) == \E d \in 1..10 : Digits[d] = c

DigitVal(c) == (CHOOSE d \in 1..10 : Digits[d] = c) - 1

RECURSIVE DigitsValue(_)
DigitsValue(s) ==
    IF Len(s) = 0 THEN 0 ELSE 10 * DigitsValue(SubSeq(s, 1, Len(s) - 1)) + DigitVal(s[Len(s)])

\* ------------------------------------------------------------------------
\* Natural numbers of any size, for the arithmetic of Python's floats: a
\* sequence of limbs below 2^15, least significant first, without leading
\* zero limbs; zero is the empty sequence.
\* ------------------------------------------------------------------------

\* The limb size.
Base == 2^15

Limb(a, i) == IF 1 <= i /\ i <= Len(a) THEN a[i] ELSE 0

BigTrim(a) ==
    LET nz == {i \in 1..Len(a) : a[i] # 0}
    IN IF nz = {} THEN << >> ELSE SubSeq(a, 1, SetMax(nz))

\* -1, 0 or 1 as a < b, a = b or a > b
BigCmp(a, b) ==
    LET diff == {i \in 1..(IF Len(a) > Len(b) THEN Len(a) ELSE Len(b)) : Limb(a, i) # Limb(b, i)}
    IN IF diff = {} THEN 0
       ELSE IF Limb(a, SetMax(diff)) < Limb(b, SetMax(diff)) THEN -1 ELSE 1

\* a + b: limb i receives a carry when a lower limb overflows and every limb
\* between passes the carry on.
BigAdd(a, b) ==
    LET n == IF Len(a) > Len(b) THEN Len(a) ELSE Len(b)
        sum(i) == Limb(a, i) + Limb(b, i)
        carry(i) == \E j \in 1..(i - 1) :
                        sum(j) >= Base /\ \A k \in (j + 1)..(i - 1) : sum(k) = Base - 1
    IN BigTrim([i \in 1..(n + 1) |-> (sum(i) + (IF carry(i) THEN 1 ELSE 0)) % Base])

\* a - b, for a >= b
BigSub(a, b) ==
    LET borrow(i) == \E j \in 1..(i - 1) :
                         Limb(a, j) < Limb(b, j)
                         /\ \A k \in (j + 1)..(i - 1) : Limb(a, k) = Limb(b, k)
    IN BigTrim([i \in 1..Len(a) |->
                    (a[i] - Limb(b, i) - (IF borrow(i) THEN 1 ELSE 0) + Base) % Base])

\* a * k, for 0 <= k < Base
BigMulSmall(a, k) ==
    BigAdd([i \in 1..Len(a) |-> (a[i] * k) % Base],
           [i \in 1..(Len(a) + 1) |-> (Limb(a, i - 1) * k) \div Base])

\* a * Base^w
BigShlLimbs(a, w) == IF Len(a) = 0 THEN a ELSE [i \in 1..w |-> 0] \o a

\* a * 2^n
BigShl(a, n) == BigShlLimbs(BigMulSmall(a, 2^(n % 15)), n \div 15)

\* floor(a / 2^n)
BigShr(a, n) ==
    LET t == SubSeq(a, (n \div 15) + 1, Len(a))
        b == n % 15
    IN BigTrim([i \in 1..Len(t) |->
                    (t[i] \div 2^b) + (Limb(t, i + 1) % 2^b) * 2^(15 - b)])

RECURSIVE BigMul(_, _)
BigMul(a, b) ==
    IF Len(b) = 0 THEN << >>
    ELSE IF Len(b) = 1 THEN BigMulSmall(a, b[1])
    ELSE LET h == Len(b) \div 2
         IN BigAdd(BigMul(a, SubSeq(b, 1, h)),
                   BigShlLimbs(BigMul(a, SubSeq(b, h + 1, Len(b))), h))

\* 10^k
RECURSIVE BigPow10(_)
BigPow10(k) ==
    IF k < 5 THEN <<10^k>>
    ELSE LET h == BigPow10(k \div 2)
         IN IF k % 2 = 0 THEN BigMul(h, h) ELSE BigMulSmall(BigMul(h, h), 10)

\* The number written by a sequence of decimal digits.
RECURSIVE BigFromDigits(_)
BigFromDigits(ds) ==
    IF Len(ds) < 5 THEN BigTrim(<<DigitsValue(ds)>>)
    ELSE LET h == Len(ds) \div 2
         IN BigAdd(BigMul(BigFromDigits(SubSeq(ds, 1, h)), BigPow10(Len(ds) - h)),
                   BigFromDigits(SubSeq(ds, h + 1, Len(ds))))

\* The number of bits of a: 0 for zero, else n with 2^(n-1) <= a < 2^n.
BigBits(a) ==
    IF Len(a) = 0 THEN 0
    ELSE 15 * (Len(a) - 1)
         + (CHOOSE n \in 1..15 : 2^(n - 1) <= a[Len(a)] /\ a[Len(a)] < 2^n)

\* The number of zero bits at the low end of a > 0.
BigTrailingZeros(a) ==
    LET i == SetMin({j \in 1..Len(a) : a[j] # 0})
    IN 15 * (i - 1)
       + (CHOOSE n \in 0..14 : a[i] % 2^n = 0 /\ a[i] % 2^(n + 1) # 0)

\* The quotient and remainder of r by q once the digit d of the quotient is
\* known, for r < 16 * q: `quot` are the higher digits of the quotient.
DivDigit(quot, r, q, d) ==
    [quot |-> BigAdd(BigShl(quot, 4), <<d>>), rem |-> BigSub(r, BigMulSmall(q, d))]

\* One step of the long division: h is the quotient and remainder of the
\* higher bits, r the remainder with the next four bits of the dividend.
DivStep(h, r, q) ==
    DivDigit(h.quot, r, q,
             CHOOSE d \in 0..15 :
                 BigCmp(BigMulSmall(q, d), r) <= 0 /\ BigCmp(BigMulSmall(q, d + 1), r) > 0)

\* Quotient and remainder of p by q > 0, four bits of the quotient at a time.
\* (The higher bits are divided first: they are bound as a value before the
\* step is taken, which keeps TLC's evaluations from nesting.)
RECURSIVE BigDivMod(_, _)
BigDivMod(p, q) ==
    IF BigCmp(p, q) < 0 THEN [quot |-> << >>, rem |-> p]
    ELSE CHOOSE res \in {DivStep(h, BigAdd(BigShl(h.rem, 4), <<p[1] % 16>>), q) :
                            h \in {BigDivMod(BigShr(p, 4), q)}} : TRUE

\* ------------------------------------------------------------------------
\* Python floats (IEEE 754 binary64).  A finite float is (-1)^neg * mant *
\* 2^exp with mant odd, or zero (mant empty, exp 0); rounding is to nearest,
\* ties to even.
\* ------------------------------------------------------------------------

NaN == [kind |-> "nan", neg |-> FALSE, mant |-> << >>, exp |-> 0]

Inf(neg) == [kind |-> "inf", neg |-> neg, mant |-> << >>, exp |-> 0]

Zero(neg) == [kind |-> "finite", neg |-> neg, mant |-> << >>, exp |-> 0]

\* (-1)^neg * m * 2^e, for m <= 2^53 and e >= -1074, as a float: infinite
\* from 2^1024 on, the mantissa made odd.
Canon(neg, m, e) ==
    IF Len(m) = 0 THEN Zero(neg)
    ELSE IF BigBits(m) + e > 1024 THEN Inf(neg)
    ELSE [kind |-> "finite", neg |-> neg,
          mant |-> BigShr(m, BigTrailingZeros(m)), exp |-> e + BigTrailingZeros(m)]

\* a * 2^e for e > 0, else a
Scaled(a, e) == IF e > 0 THEN BigShl(a, e) ELSE a

\* The exponent at which p / q has a 53-bit quotient, given e with
\* 2^(52+e) <= p / q < 2^(54+e).
QuotientExp(p, q, e) ==
    IF BigCmp(Scaled(p, -e), BigShl(Scaled(q, e), 53)) >= 0 THEN e + 1 ELSE e

\* The exponent of the last bit of a float: none is below 2^-1074.
LastBitExp(e, s) == IF e + s < -1074 THEN -1074 - s ELSE e

\* The quotient rounded to nearest, ties to even: `half` is -1, 0 or 1 as
\* twice the remainder is below, at or above the divisor.
Nearest(quot, half) ==
    IF half > 0 \/ (half = 0 /\ Limb(quot, 1) % 2 = 1) THEN BigAdd(quot, <<1>>) ELSE quot

\* The float (-1)^neg * (d.quot + d.rem / q) * 2^e, rounded.
RoundQuotient(neg, d, q, e) ==
    Canon(neg, Nearest(d.quot, BigCmp(BigShl(d.rem, 1), q)), e)

\* The float nearest to (-1)^neg * (p / q) * 2^s with its last bit at 2^(e+s).
RoundAt(neg, p, q, s, e) ==
    RoundQuotient(neg, BigDivMod(Scaled(p, -e), Scaled(q, e)), Scaled(q, e), e + s)

\* The float nearest to (-1)^neg * (p / q) * 2^s, for p, q > 0: the quotient
\* is taken to 53 bits (fewer below 2^-1022) and the remainder decides.
RoundRatio(neg, p, q, s) ==
    RoundAt(neg, p, q, s,
            LastBitExp(QuotientExp(p, q, BigBits(p) - BigBits(q) - 53), s))

\* (-1)^neg * m * 2^s as a float; a zero has the sign zneg.
RoundInt(neg, m, s, zneg) ==
    IF Len(m) = 0 THEN Zero(zneg) ELSE RoundRatio(neg, m, <<1>>, s)

\* (-1)^xneg * X * 2^s - (-1)^yneg * Y * 2^s, for integers X and Y: the
\* magnitudes add when the signs differ; x - x is +0.
SubAligned(xneg, X, yneg, Y, s) ==
    RoundInt(IF xneg # yneg \/ BigCmp(X, Y) >= 0 THEN xneg ELSE ~xneg,
             IF xneg # yneg THEN BigAdd(X, Y)
             ELSE IF BigCmp(X, Y) >= 0 THEN BigSub(X, Y)
             ELSE BigSub(Y, X),
             s, xneg # yneg /\ xneg)

\* x - y
FSub(x, y) ==
    IF x.kind = "nan" \/ y.kind = "nan" THEN NaN
    ELSE IF x.kind = "inf"
    THEN (IF y.kind = "inf" /\ y.neg = x.neg THEN NaN ELSE x)
    ELSE IF y.kind = "inf" THEN Inf(~y.neg)
    ELSE SubAligned(x.neg, BigShl(x.mant, x.exp - Min(x.exp, y.exp)),
                    y.neg, BigShl(y.mant, y.exp - Min(x.exp, y.exp)), Min(x.exp, y.exp))

\* abs(x)
FAbs(x) == [x EXCEPT !.neg = FALSE]

\* -1, 0 or 1 as |x| < |y|, |x| = |y| or |x| > |y|, for finite x and y
MagCmp(x, y) ==
    BigCmp(BigShl(x.mant, x.exp - Min(x.exp, y.exp)),
           BigShl(y.mant, y.exp - Min(x.exp, y.exp)))

\* x < y
FLt(x, y) ==
    IF x.kind = "nan" \/ y.kind = "nan" THEN FALSE
    ELSE IF x.kind = "inf" THEN x.neg /\ ~(y.kind = "inf" /\ y.neg)
    ELSE IF y.kind = "inf" THEN ~y.neg
    ELSE IF Len(x.mant) = 0 /\ Len(y.mant) = 0 THEN FALSE
    ELSE IF x.neg # y.neg THEN x.neg
    ELSE IF x.neg THEN MagCmp(x, y) > 0
    ELSE MagCmp(x, y) < 0

\* x == y
FEq(x, y) ==
    IF x.kind = "nan" \/ y.kind = "nan" THEN FALSE
    ELSE IF x.kind = "finite" /\ y.kind = "finite" /\ Len(x.mant) = 0 /\ Len(y.mant) = 0 THEN TRUE
    ELSE x = y

\* x <= y
FLe(x, y) == FLt(x, y) \/ FEq(x, y)

\* ------------------------------------------------------------------------
\* float(str)
\* ------------------------------------------------------------------------

\* The white space float() strips from both ends of its argument.
IsFloatSpace(c) == c \in {" ", "\t", "\n", "\r", "\f", "", "", " "}

FloatStrip(s) ==
    LET ks == {k \in 1..Len(s) : ~IsFloatSpace(s[k])}
    IN IF ks = {} THEN << >> ELSE SubSeq(s, SetMin(ks), SetMax(ks))

\* str.lower() on the letters of "infinity", "nan" and the exponent mark
Lower(c) ==
    CASE c = "I" -> "i" [] c = "N" -> "n" [] c = "F" -> "f" [] c = "T" -> "t"
      [] c = "Y" -> "y" [] c = "A" -> "a" [] c = "E" -> "e" [] OTHER -> c

\* digit (["_"] digit)*
IsDigitPart(p) ==
    /\ Len(p) > 0
    /\ \A k \in 1..Len(p) : IsDigit(p[k]) \/ p[k] = "_"
    /\ IsDigit(p[1])
    /\ IsDigit(p[Len(p)])
    /\ \A k \in 1..(Len(p) - 1) : ~(p[k] = "_" /\ p[k + 1] = "_")

OnlyDigits(p) == SelectSeq(p, IsDigit)

StripZeros(ds) ==
    LET ks == {k \in 1..Len(ds) : ds[k] # "0"}
    IN IF ks = {} THEN << >> ELSE SubSeq(ds, SetMin(ks), Len(ds))

\* The value of a digit sequence, cut at a value no float's exponent reaches.
Saturated(ds) == IF Len(StripZeros(ds)) > 6 THEN 999999 ELSE DigitsValue(StripZeros(ds))

\* Where the first character of s that is in cs stands; Len(s) + 1 if none.
FirstOf(s, cs) ==
    LET ks == {k \in 1..Len(s) : s[k] \in cs}
    IN IF ks = {} THEN Len(s) + 1 ELSE SetMin(ks)

\* s up to, and s after, its first character in cs.
PartBefore(s, cs) == SubSeq(s, 1, FirstOf(s, cs) - 1)

PartAfter(s, cs) == SubSeq(s, FirstOf(s, cs) + 1, Len(s))

HasSign(s) == Len(s) > 0 /\ s[1] \in {"-", "+"}

Unsigned(s) == IF HasSign(s) THEN Tail(s) ELSE s

\* The value of an exponent: a sign and digits.
Exp10(expo) ==
    IF HasSign(expo) /\ expo[1] = "-" THEN -Saturated(OnlyDigits(Unsigned(expo)))
    ELSE Saturated(OnlyDigits(Unsigned(expo)))

\* The float nearest to (-1)^neg * digits * 10^k10, digits without leading
\* zeros: no float is as large as 10^310, and every number below 10^-330
\* rounds to zero.
Decimal(neg, digits, k10) ==
    IF Len(digits) = 0 THEN Zero(neg)
    ELSE IF Len(digits) + k10 > 310 THEN Inf(neg)
    ELSE IF Len(digits) + k10 < -330 THEN Zero(neg)
    ELSE RoundRatio(neg,
                    IF k10 >= 0 THEN BigMul(BigFromDigits(digits), BigPow10(k10))
                    ELSE BigFromDigits(digits),
                    IF k10 >= 0 THEN <<1>> ELSE BigPow10(-k10),
                    0)

\* The number with integer part ip, fraction fp and, if hasExp, exponent expo.
ParseParts(neg, ip, fp, hasExp, expo) ==
    IF /\ Len(ip) = 0 \/ IsDigitPart(ip)
       /\ Len(fp) = 0 \/ IsDigitPart(fp)
       /\ Len(ip) + Len(fp) > 0
       /\ ~hasExp \/ IsDigitPart(Unsigned(expo))
    THEN Some(Decimal(neg, StripZeros(OnlyDigits(ip) \o OnlyDigits(fp)),
                      (IF hasExp THEN Exp10(expo) ELSE 0) - Len(OnlyDigits(fp))))
    ELSE None

\* The number num with, if hasExp, the exponent expo.
ParseNumber(neg, num, hasExp, expo) ==
    ParseParts(neg, PartBefore(num, {"."}), PartAfter(num, {"."}), hasExp, expo)

\* The text after the sign: "inf", "infinity" or "nan" in any case, or a
\* number with an optional exponent.
ParseUnsigned(neg, body) ==
    IF [k \in 1..Len(body) |-> Lower(body[k])]
           \in {<<"i", "n", "f">>, <<"i", "n", "f", "i", "n", "i", "t", "y">>}
    THEN Some(Inf(neg))
    ELSE IF [k \in 1..Len(body) |-> Lower(body[k])] = <<"n", "a", "n">> THEN Some(NaN)
    ELSE ParseNumber(neg, PartBefore(body, {"e", "E"}), FirstOf(body, {"e", "E"}) <= Len(body),
                     PartAfter(body, {"e", "E"}))

\* The stripped text: an optional sign, then the rest.
ParseSigned(s) == ParseUnsigned(HasSign(s) /\ s[1] = "-", Unsigned(s))

\* float(str): Some(the float), or None where float() raises ValueError.
ParseFloat(str) == ParseSigned(FloatStrip(str))


\* ------------------------------------------------------------------------
\* The line decoder (read_weight, lines 113-117).  A line is a sequence of
\* characters.
\* ------------------------------------------------------------------------

\* str.isspace(), the characters str.strip() removes: space, \t, \n, \v, \f,
\* \r, the separators U+001C to U+001F, U+0085 and U+00A0.
IsSpace(c) ==
    c \in {" ", "\t", "\n", "\r", "\f", "", "", "", "", "", "", " "}

\* str.lstrip()
LStrip(s) ==
    LET ks == {k \in 1..Len(s) : ~IsSpace(s[k])}
    IN IF ks = {} THEN << >> ELSE SubSeq(s, SetMin(ks), Len(s))

\* str.rstrip()
RStrip(s) ==
    LET ks == {k \in 1..Len(s) : ~IsSpace(s[k])}
    IN IF ks = {} THEN << >> ELSE SubSeq(s, 1, SetMax(ks))

\* str.strip()
Strip(s) == RStrip(LStrip(s))

\* "kg" in line
ContainsKg(s) == \E k \in 1..(Len(s) - 1) : s[k] = "k" /\ s[k + 1] = "g"

\* line.split(",")[-1]: the text after the last comma (the whole line if none)
LastField(s) ==
    LET commas == {k \in 1..Len(s) : s[k] = ","}
        last == IF commas = {} THEN 0 ELSE CHOOSE k \in commas : \A j \in commas : j <= k
    IN SubSeq(s, last + 1, Len(s))

\* str.replace("kg", ""): every non-overlapping occurrence, left to right
RECURSIVE RemoveKg(_)
RemoveKg(s) ==
    IF Len(s) = 0 THEN s
    ELSE IF Len(s) >= 2 /\ s[1] = "k" /\ s[2] = "g" THEN RemoveKg(SubSeq(s, 3, Len(s)))
    ELSE <<s[1]>> \o RemoveKg(Tail(s))

\* str.replace("+", "")
RemovePlus(s) == SelectSeq(s, LAMBDA c : c # "+")

\* Line 117: float(weight_str) returns, or raises ValueError.
DecodeField(f) ==
    IF IsNone(f) THEN [kind |-> "error", value |-> Zero(FALSE)]
    ELSE [kind |-> "weight", value |-> Val(f)]

\* Lines 114-117 on the stripped line.
DecodeLine(line) ==
    IF ~ContainsKg(line) THEN [kind |-> "none", value |-> Zero(FALSE)]
    ELSE DecodeField(ParseFloat(Strip(RemovePlus(RemoveKg(LastField(line))))))

\* Lines 113-117 on one raw line: "weight" with the float returned, "none"
\* when the line carries no "kg" (the attempt goes on to the sleep), "error"
\* when float() raises ValueError.
Decode(raw) == DecodeLine(Strip(raw))

\* ------------------------------------------------------------------------
\* What the device can answer.  The three weights are 0.5 kg apart in decimal:
\* as floats, 0.60 - 0.10 is 0.5 and 1.10 - 0.60 is 0.5000000000000001.
\* ------------------------------------------------------------------------

Prefix == <<"S", "T", ",", "G", "S", ",">>

\* "ST,GS,+000.10kg\r\n"
Line010 == Prefix \o <<"+", "0", "0", "0", ".", "1", "0", "k", "g", "\r", "\n">>

\* "ST,GS,+000.60kg\r\n"
Line060 == Prefix \o <<"+", "0", "0", "0", ".", "6", "0", "k", "g", "\r", "\n">>

\* "ST,GS,+001.10kg\r\n"
Line110 == Prefix \o <<"+", "0", "0", "1", ".", "1", "0", "k", "g", "\r", "\n">>

\* "ST,GS\r\n": no unit marker
LineNoKg == <<"S", "T", ",", "G", "S", "\r", "\n">>

\* "ST,GS,+-.kg\r\n": the unit marker with a malformed numeric field
LineBad == Prefix \o <<"+", "-", ".", "k", "g", "\r", "\n">>

Lines == {Line010, Line060, Line110, LineNoKg, LineBad}

\* The decoder's answer for each line of the model, computed once.
Decoded == [l \in Lines |-> Decode(l)]

\* One readline(): an I/O error (reset_input_buffer or readline raises), or a
\* line.
Reads == {[io_error |-> TRUE, line |-> << >>]} \cup
         {[io_error |-> FALSE, line |-> l] : l \in Lines}

\* The floats read_weight can return.
Weights == {Decoded[l].value : l \in {l \in Lines : Decoded[l].kind = "weight"}}

OptWeights == {None} \cup {Some(w) : w \in Weights}

\* ------------------------------------------------------------------------
\* State
\* ------------------------------------------------------------------------

VARIABLES
    SCALE_PORTS,        \* the configured list of device paths (line 16)
    pc,                 \* where the main thread is
    ci,                 \* the scale being constructed or polled (index into SCALE_PORTS)
    scales,             \* the global list `scales` (line 213), as port indexes
    serial,             \* Scale.serial of each port: "None", "Open", "Closed"
    failed,             \* Scale.failed of each port
    last_valid_weight,  \* Scale.last_valid_weight of each port
    last_weights,       \* main's last_weights
    weights,            \* main's weights, the record being built
    returned,           \* what get_validated_weight returned for each scale polled in this tick
    tick,               \* ticks started so far; the record's timestamp t
    rAttempt,           \* read_weight(): attempt
    vAttempt,           \* get_validated_weight(): attempt; -1 on the first-reading path
    raw_reads,          \* read_weight() calls made by the current get_validated_weight()
    ret,                \* the value just returned by read_weight / get_validated_weight
    csv_file,           \* the CSV file: does it exist, its header width, rows appended this tick
    uAttempt,           \* upload_to_firebase(): attempt
    pushed_304,         \* records pushed to ref_304 in this tick
    pushed_303,         \* records pushed to ref_303 in this tick
    reboots,            \* `sudo reboot` invocations in this tick
    exhausted,          \* ports whose connect() ran out of attempts during this tick
    now,                \* get_next_slot: datetime.now()
    next_slot,          \* get_next_slot: the value returned
    script,             \* read_weight on its own: what the device answers at each attempt
    device,             \* connect() on its own: what each attempt meets
    conn,               \* connect() on its own: attempts made and seconds slept
    calls               \* read_weight on its own: connect() calls of the current attempt

vars == <<SCALE_PORTS, pc, ci, scales, serial, failed, last_valid_weight, last_weights, weights,
          returned, tick, rAttempt, vAttempt, raw_reads, ret, csv_file, uAttempt, pushed_304,
          pushed_303, reboots, exhausted, now, next_slot, script, device, conn, calls>>

scaleVars == <<serial, failed, last_valid_weight>>

sinkVars == <<csv_file, uAttempt, pushed_304, pushed_303, reboots>>

slotVars == <<now, next_slot>>

inputVars == <<SCALE_PORTS, script, device, conn, calls>>

\* The indexes of the configured ports: range(len(SCALE_PORTS)), from 1.
Ports == DOMAIN SCALE_PORTS

\* ------------------------------------------------------------------------
\* Scale.__init__ and Scale.connect
\* ------------------------------------------------------------------------

\* What one attempt of connect() meets: the device path is missing (line 88),
\* serial.Serial() raises (line 97), or the port opens (line 93).
ConnectOutcomes == {"missing", "open_fails", "opened"}

\* The flag kept as it was by a successful open.
FailedAfterOpen_Kept(old) == old

\* Line 95: a successful open clears the failed flag.
FailedAfterOpen(old) == FALSE

\* No wait after an attempt that found the device path missing.
AttemptDelay_MissingSkips(met) == IF met = "open_fails" THEN RECONNECT_DELAY ELSE 0

\* Lines 90 and 99: the seconds slept after an attempt that met `met`; the
\* attempt that opens the port returns without sleeping.
AttemptDelay(met) == IF met = "opened" THEN 0 ELSE RECONNECT_DELAY

\* Lines 87-102: connect() from attempt `attempt` on, where outcome[a] is what
\* attempt a meets and `old` is the failed flag at the call.  The result is
\* self.serial and self.failed as connect() leaves them, the number of
\* attempts made and the seconds slept.
RECURSIVE ConnectFrom(_, _, _)
ConnectFrom(outcome, attempt, old) ==
    IF attempt > MAX_RECONNECT_ATTEMPTS
    THEN [serial |-> "None", failed |-> TRUE, attempts |-> MAX_RECONNECT_ATTEMPTS,
          waited |-> 0]
    ELSE IF outcome[attempt] = "opened"
    THEN [serial |-> "Open", failed |-> FailedAfterOpen(old), attempts |-> attempt,
          waited |-> 0]
    ELSE [ConnectFrom(outcome, attempt + 1, old) EXCEPT
              !.waited = @ + AttemptDelay(outcome[attempt])]

connect(outcome, old) == ConnectFrom(outcome, 1, old)

\* The runs of connect() the main loop is followed under: the port opens at
\* the first attempt, it opens at the last attempt after failures of both
\* kinds, or it never opens (the path missing, or present and not opening).
\* connect() assigns nothing before its last sleep, so the scale is as it was
\* at the call while connect() waits between attempts.
ConnectRuns ==
    {[a \in 1..MAX_RECONNECT_ATTEMPTS |-> "opened"],
     [a \in 1..MAX_RECONNECT_ATTEMPTS |->
         IF a = MAX_RECONNECT_ATTEMPTS THEN "opened"
         ELSE IF a % 2 = 1 THEN "missing" ELSE "open_fails"],
     [a \in 1..MAX_RECONNECT_ATTEMPTS |-> "missing"],
     [a \in 1..MAX_RECONNECT_ATTEMPTS |-> "open_fails"]}

\* connect() on each of these runs and each value of the flag, computed once.
Connected == [run \in ConnectRuns |-> [old \in BOOLEAN |-> connect(run, old)]]

\* connect() makes two assignments, and the main thread can be interrupted
\* between them: self.serial first (line 93, or line 101 when it ran out of
\* attempts), then, after the logging call of line 94, self.failed (line 95,
\* or line 102).  `opened` and `gaveUp` are where the main thread stands after
\* the first assignment of a call that met `run` on scale ci.
ConnectAssignsHandle(run, opened, gaveUp) ==
    /\ serial' = [serial EXCEPT ![ci] = Connected[run][failed[ci]].serial]
    /\ pc' = IF Connected[run][failed[ci]].serial = "Open" THEN opened ELSE gaveUp

\* Lines 95-96 and 102: the second assignment of that call, self.failed, after
\* which connect() returns; the call ran out of attempts when it left no handle.
ConnectAssignsFailed ==
    /\ \E run \in ConnectRuns :
         /\ Connected[run][failed[ci]].serial = serial[ci]
         /\ failed' = [failed EXCEPT ![ci] = Connected[run][failed[ci]].failed]
    /\ exhausted' = IF serial[ci] = "None" THEN exhausted \cup {ci} ELSE exhausted

\* Lines 79-84: Scale(port) sets the fields and calls connect().  The new
\* Scale has no handle and failed False, so one of connect()'s two assignments
\* changes nothing and the constructor is one step.
Construct ==
    /\ pc = "construct"
    /\ \E run \in ConnectRuns :
         LET c == Connected[run][FALSE]
         IN /\ serial' = [serial EXCEPT ![ci] = c.serial]
            /\ failed' = [failed EXCEPT ![ci] = c.failed]
    /\ last_valid_weight' = [last_valid_weight EXCEPT ![ci] = None]
    /\ pc' = IF ci < Len(SCALE_PORTS) THEN "construct" ELSE "register"
    /\ ci' = IF ci < Len(SCALE_PORTS) THEN ci + 1 ELSE ci
    /\ UNCHANGED <<scales, last_weights, weights, returned, tick, rAttempt, vAttempt,
                   raw_reads, ret, exhausted>>
    /\ UNCHANGED sinkVars
    /\ UNCHANGED slotVars
    /\ UNCHANGED inputVars

\* ------------------------------------------------------------------------
\* Scale.read_weight
\* ------------------------------------------------------------------------

\* The same attempt made again.
NextAttempt_Again == pc' = "rw" /\ rAttempt' = rAttempt /\ ret' = ret

\* read_weight's loop moves to its next attempt, or runs out of attempts and
\* returns None (lines 105, 122-123).
NextAttempt ==
    IF rAttempt + 1 < max_attempts
    THEN pc' = "rw" /\ rAttempt' = rAttempt + 1 /\ ret' = ret
    ELSE pc' = "rw_ret" /\ rAttempt' = 0 /\ ret' = None

\* What can be raised inside the try block of read_weight: an I/O error of
\* reset_input_buffer or readline (serial.SerialException, OSError), or the
\* ValueError of float() on a line with "kg" and a malformed numeric field.
\* "" stands for nothing raised.
Raised(r) ==
    IF r.io_error THEN "SerialException"
    ELSE IF Decoded[r.line].kind = "error" THEN "ValueError"
    ELSE ""

\* A handler for I/O errors only.
Caught_OnlyIO(exc) == exc = "SerialException"

\* Line 118: `except Exception` catches whatever the try block raises.
Caught(exc) == TRUE

\* Lines 107-109: is connect() called before the read?
Reconnects(handle) == handle # "Open"

\* Lines 112-118: how the read of an attempt ends when the device gives r: the
\* weight is returned ("return"); what was raised is caught and connect() is
\* called (lines 118-120, "reconnect"); what was raised leaves read_weight
\* ("raised"); or the line holds no weight and the loop goes on ("retry").
ReadAndDecode(r) ==
    IF Raised(r) # "" /\ ~Caught(Raised(r)) THEN [ends |-> "raised", value |-> None]
    ELSE IF Raised(r) # "" THEN [ends |-> "reconnect", value |-> None]
    ELSE IF Decoded[r.line].kind = "weight"
    THEN [ends |-> "return", value |-> Some(Decoded[r.line].value)]
    ELSE [ends |-> "retry", value |-> None]

\* Lines 117, 121-123: a read that made no connect() call ends the attempt:
\* the weight is returned, or the exception leaves read_weight, or the loop
\* sleeps and moves on.
RwEnds(got) ==
    IF got.ends = "return"
    THEN pc' = "rw_ret" /\ ret' = got.value /\ rAttempt' = 0
    ELSE IF got.ends = "raised"
    THEN pc' = "raised" /\ ret' = None /\ rAttempt' = 0
    ELSE NextAttempt

\* Lines 105-109 and 87-94 or 100-101: an attempt of read_weight on scale ci
\* finds the handle not open and calls connect(), which makes its attempts
\* and assigns self.serial.
RwConnect ==
    /\ pc = "rw"
    /\ Reconnects(serial[ci])
    /\ \E run1 \in ConnectRuns : ConnectAssignsHandle(run1, "rw_c94", "rw_c102")
    /\ UNCHANGED <<ci, scales, failed, last_valid_weight, last_weights, weights, returned,
                   tick, rAttempt, vAttempt, raw_reads, ret, exhausted>>
    /\ UNCHANGED sinkVars
    /\ UNCHANGED slotVars
    /\ UNCHANGED inputVars

\* Is the main thread inside a connect() call made by read_weight, between
\* the assignment of self.serial and that of self.failed?  "rw_" is the call
\* of line 109, "rx_" the call of line 120.
InConnect == pc \in {"rw_c94", "rw_c102", "rx_c94", "rx_c102"}

\* Lines 95-96 or 102, then 110-111 or 121: the connect() call of an attempt
\* assigns self.failed and returns.  After the call of line 109 the attempt
\* goes on to wait in readline (timeout=1) if there is a handle and the loop
\* moves on if there is none; after the call of line 120 the loop sleeps and
\* moves on.
RwConnected ==
    /\ InConnect
    /\ ConnectAssignsFailed
    /\ IF pc = "rw_c94"
       THEN pc' = "rw_read" /\ rAttempt' = rAttempt /\ ret' = ret
       ELSE NextAttempt
    /\ UNCHANGED <<ci, scales, serial, last_valid_weight, last_weights, weights, returned,
                   tick, vAttempt, raw_reads>>
    /\ UNCHANGED sinkVars
    /\ UNCHANGED slotVars
    /\ UNCHANGED inputVars

\* Is the main thread at the read of an attempt: at line 112 after the
\* connect() of line 109, or at line 107 with an open handle?
AtRead == pc = "rw_read" \/ (pc = "rw" /\ ~Reconnects(serial[ci]))

\* Lines 112-121: the read of an attempt on scale ci, the device doing
\* anything it can, and the decoding of the line.  When something was raised,
\* the connect() of line 120 makes its attempts and assigns self.serial.
RwRead ==
    /\ AtRead
    /\ \E r \in Reads :
         IF ReadAndDecode(r).ends = "reconnect"
         THEN /\ \E run2 \in ConnectRuns : ConnectAssignsHandle(run2, "rx_c94", "rx_c102")
              /\ UNCHANGED <<rAttempt, ret>>
         ELSE /\ UNCHANGED serial
              /\ RwEnds(ReadAndDecode(r))
    /\ UNCHANGED <<ci, scales, failed, last_valid_weight, last_weights, weights, returned,
                   tick, vAttempt, raw_reads, exhausted>>
    /\ UNCHANGED sinkVars
    /\ UNCHANGED slotVars
    /\ UNCHANGED inputVars

\* ------------------------------------------------------------------------
\* Scale.get_validated_weight
\* ------------------------------------------------------------------------

\* A gate that lets every reading through.
Accepts_Any(weight, baseline) == TRUE

\* The gate with a strict comparison.
Accepts_Strict(weight, baseline) ==
    FLt(FAbs(FSub(weight, baseline)), WEIGHT_VALIDATION_THRESHOLD)

\* Lines 143-144: the consistency gate, abs(weight - self.last_valid_weight)
\* <= WEIGHT_VALIDATION_THRESHOLD on floats.
Accepts(weight, baseline) ==
    FLe(FAbs(FSub(weight, baseline)), WEIGHT_VALIDATION_THRESHOLD)

\* The gate on each reading and baseline of the model, computed once.
Accepted == [weight \in Weights |-> [baseline \in Weights |-> Accepts(weight, baseline)]]

\* The baseline forgotten when a reading is accepted.
Rebase_Cleared(weight, baseline) == None

\* Line 145: an accepted reading becomes the baseline.
Rebase(weight, baseline) == Some(weight)

\* "No reading" returned when every retry was rejected.
Fallback_NoReading(baseline) == None

\* Lines 151-153: the value returned when every retry was rejected.
Fallback(baseline) == baseline

\* The first reading returned without being recorded as the baseline.
FirstBaseline_Dropped(weight) == None

\* Lines 127-131: the baseline after the first-reading path's raw read.
FirstBaseline(weight) == weight

\* Lines 127-129 and 136-137: get_validated_weight is called on scale ci and
\* makes its first read_weight() call.
GetValidatedWeight ==
    /\ pc = "poll"
    /\ vAttempt' = IF IsNone(last_valid_weight[ci]) THEN -1 ELSE 0
    /\ rAttempt' = 0
    /\ raw_reads' = 1
    /\ pc' = "rw"
    /\ UNCHANGED <<ci, scales, last_weights, weights, returned, tick, ret, exhausted>>
    /\ UNCHANGED scaleVars
    /\ UNCHANGED sinkVars
    /\ UNCHANGED slotVars
    /\ UNCHANGED inputVars

\* read_weight() has returned `ret`.  Lines 130-133 on the first-reading
\* path; lines 138-153 in the validation loop.
RwReturn ==
    /\ pc = "rw_ret"
    /\ IF vAttempt = -1
       THEN /\ last_valid_weight' =
                   IF IsNone(ret) THEN last_valid_weight
                   ELSE [last_valid_weight EXCEPT ![ci] = FirstBaseline(ret)]
            /\ pc' = "gvw_ret"
            /\ UNCHANGED <<ret, vAttempt, rAttempt, raw_reads>>
       ELSE IF ~IsNone(ret) /\ Accepted[Val(ret)][Val(last_valid_weight[ci])]
       THEN /\ last_valid_weight' =
                   [last_valid_weight EXCEPT ![ci] = Rebase(Val(ret), Val(@))]
            /\ pc' = "gvw_ret"
            /\ UNCHANGED <<ret, vAttempt, rAttempt, raw_reads>>
       ELSE IF vAttempt + 1 < MAX_VALIDATION_RETRIES
       THEN /\ vAttempt' = vAttempt + 1
            /\ rAttempt' = 0
            /\ raw_reads' = raw_reads + 1
            /\ pc' = "rw"
            /\ UNCHANGED <<ret, last_valid_weight>>
       ELSE /\ ret' = Fallback(last_valid_weight[ci])
            /\ pc' = "gvw_ret"
            /\ UNCHANGED <<vAttempt, rAttempt, raw_reads, last_valid_weight>>
    /\ UNCHANGED <<ci, scales, serial, failed, last_weights, weights, returned, tick,
                   exhausted>>
    /\ UNCHANGED sinkVars
    /\ UNCHANGED slotVars
    /\ UNCHANGED inputVars

\* ------------------------------------------------------------------------
\* The sinks
\* ------------------------------------------------------------------------

\* Line 167: the row appended for a record.
CsvRow(t, w) == [timestamp |-> t, weights |-> w]

\* What save_to_csv can meet: the row is written; open() raises (line 163);
\* the first write raises after open() has created the file; the header is
\* written and the write of the row raises.
CsvOutcomes == {"ok", "open_fails", "write_fails", "row_fails"}

\* Lines 161-167: the file after save_to_csv(t, w).  file_exists is taken
\* before open() (line 161), and open(mode="a") creates a missing file, so a
\* file left empty by a failed write gets no header from a later call.
CsvFileAfter(file, outcome, t, w) ==
    IF outcome = "open_fails" THEN file
    ELSE [exists |-> TRUE,
          header |-> IF file.exists \/ outcome = "write_fails" THEN file.header ELSE Len(w),
          rows |-> IF outcome = "ok" THEN Append(file.rows, CsvRow(t, w)) ELSE file.rows]

\* Lines 180-182: the record for ref_304: weights[:3] under weight1..weight3.
Data304(t, w) == [timestamp |-> t, weights |-> SubSeq(w, 1, Min(3, Len(w)))]

\* Lines 188-191: the record for ref_303; Python's weights[2] is w[3] here.
Data303(t, w) == [timestamp |-> t, weight1 |-> w[3]]

\* What one push can do: it succeeds, or it raises.
PushOutcomes == {"ok", "raises"}

\* Lines 183-195: where upload_to_firebase goes after a push that succeeded:
\* from ref_304.push to ref_303.push for a record of more than three slots,
\* else to its return.
AfterPush(at, w) == IF at = "upload" /\ Len(w) > 3 THEN "upload_303" ELSE "check"

\* Lines 197-204: where upload_to_firebase goes after a push that raised in
\* attempt a: to the sleep before the next attempt, which starts again from
\* ref_304.push, or after the last attempt to its return.
AfterPushError(a) == IF a + 1 < max_retries THEN "upload" ELSE "check"

\* ------------------------------------------------------------------------
\* main
\* ------------------------------------------------------------------------

\* The flag cleared by main when a value came back.
MainFailed_Cleared(old, w) == IsNone(w)

\* Lines 243-249: the failed flag of the polled scale after main has looked at
\* the value `w` that get_validated_weight returned.
MainFailed(old, w) == IF IsNone(w) THEN TRUE ELSE old

\* The remembered value appended whatever came back.
Slot_Stale(w, remembered) == remembered

\* Lines 243-248: the slot main appends for the polled scale.
Slot(w, remembered) == IF IsNone(w) THEN remembered ELSE w

\* The remembered value never updated.
Remembered_Kept(w, old) == old

\* Lines 243-244: main's remembered value for the polled scale after the
\* value `w` came back.
Remembered(w, old) == IF IsNone(w) THEN old ELSE w

\* The slot put at the front of the record.
AppendSlot_Front(ws, v) == <<v>> \o ws

\* Lines 245 and 248: weights.append(...).
AppendSlot(ws, v) == Append(ws, v)

\* One reboot command per failed scale.
RebootCalls_PerScale(flags) == Cardinality({i \in DOMAIN flags : flags[i]})

\* Lines 255-257: how many times the reboot command is run at the end of a tick.
RebootCalls(flags) == IF \E i \in DOMAIN flags : flags[i] THEN 1 ELSE 0

\* A datetime is a day count and the time of day.
TotalMinutes(dt) == (dt.day * 24 + dt.hour) * 60 + dt.minute

\* dt + timedelta(minutes=k): the carry runs through the hour and the day.
PlusMinutes(dt, k) ==
    LET m == TotalMinutes(dt) + k
    IN [dt EXCEPT !.day = m \div 1440, !.hour = (m % 1440) \div 60, !.minute = m % 60]

\* dt.replace(second=0, microsecond=0)
ReplaceSeconds(dt) == [dt EXCEPT !.second = 0, !.microsecond = 0]

\* The slot without the step back to the ten-minute boundary.
get_next_slot_Unaligned(n) == ReplaceSeconds(PlusMinutes(n, 10))

\* Lines 208-210.
get_next_slot(n) ==
    LET slot == ReplaceSeconds(PlusMinutes(n, 10))
    IN PlusMinutes(slot, -(n.minute % 10))

\* The clock readings the main loop is followed under: midnight, a slot
\* boundary and a time inside a slot.  datetime.now() is the local wall clock,
\* which can be set back, so any reading can follow any other.
Midnight == [day |-> 0, hour |-> 0, minute |-> 0, second |-> 0, microsecond |-> 0]

MainClock ==
    {Midnight,
     [Midnight EXCEPT !.minute = 10],
     [Midnight EXCEPT !.hour = 10, !.minute = 3, !.second = 27]}

\* Lines 228-229: the list is assigned to the global `scales` only once every
\* Scale has been constructed; last_weights starts as [None] * len(scales).
Register ==
    /\ pc = "register"
    /\ scales' = [i \in Ports |-> i]
    /\ last_weights' = [i \in Ports |-> None]
    /\ pc' = "loop"
    /\ UNCHANGED <<ci, weights, returned, tick, rAttempt, vAttempt, raw_reads, ret,
                   exhausted>>
    /\ UNCHANGED scaleVars
    /\ UNCHANGED sinkVars
    /\ UNCHANGED slotVars
    /\ UNCHANGED inputVars

\* Lines 232-236: a turn of the loop calls get_next_slot(), which reads the
\* clock (line 208) and returns the slot the turn sleeps until (line 237).
\* main's own reading of the clock (line 233) only sets the length of that
\* sleep.
WaitForSlot ==
    /\ pc = "loop"
    /\ tick < MaxTicks
    /\ \E n \in MainClock :
         /\ now' = n
         /\ next_slot' = Some(get_next_slot(n))
    /\ pc' = "sleep"
    /\ UNCHANGED <<ci, scales, last_weights, weights, returned, tick, rAttempt, vAttempt,
                   raw_reads, ret, exhausted>>
    /\ UNCHANGED scaleVars
    /\ UNCHANGED sinkVars
    /\ UNCHANGED inputVars

\* Lines 237-240: the sleep until the slot is over and a tick starts.  What
\* each sink received is kept per tick.
Sleep ==
    /\ pc = "sleep"
    /\ tick' = tick + 1
    /\ weights' = << >>
    /\ returned' = << >>
    /\ ci' = 1
    /\ pc' = "poll"
    /\ csv_file' = [csv_file EXCEPT !.rows = << >>]
    /\ pushed_304' = << >>
    /\ pushed_303' = << >>
    /\ reboots' = 0
    /\ exhausted' = {}
    /\ UNCHANGED <<scales, last_weights, rAttempt, vAttempt, raw_reads, ret, uAttempt>>
    /\ UNCHANGED scaleVars
    /\ UNCHANGED slotVars
    /\ UNCHANGED inputVars

\* Lines 242-249: get_validated_weight() has returned `ret` to main.
GvwReturn ==
    /\ pc = "gvw_ret"
    /\ weights' = AppendSlot(weights, Slot(ret, last_weights[ci]))
    /\ returned' = Append(returned, ret)
    /\ last_weights' = [last_weights EXCEPT ![ci] = Remembered(ret, @)]
    /\ failed' = [failed EXCEPT ![ci] = MainFailed(failed[ci], ret)]
    /\ IF ci < Len(SCALE_PORTS)
       THEN ci' = ci + 1 /\ pc' = "poll"
       ELSE ci' = ci /\ pc' = "csv"
    /\ vAttempt' = 0
    /\ raw_reads' = 0
    /\ ret' = None
    /\ UNCHANGED <<scales, serial, last_valid_weight, tick, rAttempt,
                   exhausted>>
    /\ UNCHANGED sinkVars
    /\ UNCHANGED slotVars
    /\ UNCHANGED inputVars

\* The write error of save_to_csv reaching main.
AfterCsv_Raises(outcome) == IF outcome = "ok" THEN "upload" ELSE "raised"

\* Lines 169-170 and 251-252: save_to_csv logs an error of open() or of a
\* write and returns, so main goes on to the upload whether the row was
\* written or not.
AfterCsv(outcome) == "upload"

\* Lines 160-170: save_to_csv(t, weights).
SaveToCsv ==
    /\ pc = "csv"
    /\ \E outcome \in CsvOutcomes :
         /\ csv_file' = CsvFileAfter(csv_file, outcome, tick, weights)
         /\ pc' = AfterCsv(outcome)
    /\ UNCHANGED <<ci, scales, last_weights, weights, returned, tick, rAttempt,
                   vAttempt, raw_reads, ret, uAttempt, pushed_304, pushed_303, reboots,
                   exhausted>>
    /\ UNCHANGED scaleVars
    /\ UNCHANGED slotVars
    /\ UNCHANGED inputVars

\* Lines 177-204: one push of upload_to_firebase(t, weights) and what follows
\* it up to the next push, the sleep before the next attempt (line 201) or the
\* return: ref_304.push (line 183) at "upload", ref_303.push (line 192) at
\* "upload_303".
UploadToFirebase ==
    /\ pc \in {"upload", "upload_303"}
    /\ \E outcome \in PushOutcomes :
         IF outcome = "ok"
         THEN /\ pushed_304' = IF pc = "upload"
                               THEN Append(pushed_304, Data304(tick, weights))
                               ELSE pushed_304
              /\ pushed_303' = IF pc = "upload_303"
                               THEN Append(pushed_303, Data303(tick, weights))
                               ELSE pushed_303
              /\ pc' = AfterPush(pc, weights)
              /\ uAttempt' = IF pc' = "check" THEN 0 ELSE uAttempt
         ELSE /\ pc' = AfterPushError(uAttempt)
              /\ uAttempt' = IF pc' = "check" THEN 0 ELSE uAttempt + 1
              /\ UNCHANGED <<pushed_304, pushed_303>>
    /\ UNCHANGED <<ci, scales, last_weights, weights, returned, tick, rAttempt,
                   vAttempt, raw_reads, ret, csv_file, reboots, exhausted>>
    /\ UNCHANGED scaleVars
    /\ UNCHANGED slotVars
    /\ UNCHANGED inputVars

\* Lines 254-257: the fleet-recovery check; subprocess.run returns and the
\* loop goes on until the reboot's SIGTERM arrives.
RebootCheck ==
    /\ pc = "check"
    /\ reboots' = reboots + RebootCalls(failed)
    /\ pc' = "loop"
    /\ UNCHANGED <<ci, scales, last_weights, weights, returned, tick, rAttempt,
                   vAttempt, raw_reads, ret, csv_file, uAttempt, pushed_304, pushed_303,
                   exhausted>>
    /\ UNCHANGED scaleVars
    /\ UNCHANGED slotVars
    /\ UNCHANGED inputVars

\* Scale.close (lines 155-158) on one handle.
Close(handle) == IF handle = "Open" THEN "Closed" ELSE handle

\* Lines 215-220: SIGTERM or SIGINT, handled between two steps of the main
\* thread: close every scale of the global list, then exit.  exit(0) unwinds
\* the main thread, whose locals are cleared; the Scale objects and what the
\* sinks received stay as they were.
CleanupAndExit ==
    /\ pc # "exited"
    /\ serial' = [i \in Ports |->
                    IF \E k \in DOMAIN scales : scales[k] = i THEN Close(serial[i])
                    ELSE serial[i]]
    /\ pc' = "exited"
    /\ ci' = 1
    /\ weights' = << >>
    /\ returned' = << >>
    /\ last_weights' = [i \in Ports |-> None]
    /\ rAttempt' = 0
    /\ vAttempt' = 0
    /\ raw_reads' = 0
    /\ ret' = None
    /\ uAttempt' = 0
    /\ UNCHANGED <<scales, failed, last_valid_weight, tick, exhausted, csv_file, pushed_304,
                   pushed_303, reboots>>
    /\ UNCHANGED slotVars
    /\ UNCHANGED inputVars

\* The state every specification starts from, but for the inputs it draws.
Blank ==
    /\ ci = 1
    /\ last_valid_weight = [i \in Ports |-> None]
    /\ last_weights = [i \in Ports |-> None]
    /\ returned = << >>
    /\ rAttempt = 0
    /\ ret = None
    /\ csv_file = [exists |-> FALSE, header |-> 0, rows |-> << >>]
    /\ uAttempt = 0
    /\ pushed_304 = << >>
    /\ pushed_303 = << >>
    /\ reboots = 0
    /\ exhausted = {}
    /\ next_slot = None
    /\ conn = [attempts |-> 0, waited |-> 0]
    /\ calls = 0

Init ==
    /\ SCALE_PORTS \in PortLists
    /\ pc = "construct"
    /\ scales = << >>
    /\ serial = [i \in Ports |-> "None"]
    /\ failed = [i \in Ports |-> FALSE]
    /\ weights = << >>
    /\ tick = 0
    /\ vAttempt = 0
    /\ raw_reads = 0
    /\ now = Midnight
    /\ script = << >>
    /\ device = [a \in 1..MAX_RECONNECT_ATTEMPTS |-> "opened"]
    /\ Blank

Next ==
    \/ Construct
    \/ Register
    \/ WaitForSlot
    \/ Sleep
    \/ GetValidatedWeight
    \/ RwConnect
    \/ RwConnected
    \/ RwRead
    \/ RwReturn
    \/ GvwReturn
    \/ SaveToCsv
    \/ UploadToFirebase
    \/ RebootCheck
    \/ CleanupAndExit

Spec == Init /\ [][Next]_vars

\* The steps of the main thread.  Every one of them ends by itself: the sleeps
\* are finite, serial.Serial(..., timeout=1) bounds each readline, and the
\* sinks return or raise.  A termination signal may arrive at any time, or
\* never.
MainStep ==
    \/ Construct
    \/ Register
    \/ WaitForSlot
    \/ Sleep
    \/ GetValidatedWeight
    \/ RwConnect
    \/ RwConnected
    \/ RwRead
    \/ RwReturn
    \/ GvwReturn
    \/ SaveToCsv
    \/ UploadToFirebase
    \/ RebootCheck

\* The program whose main thread keeps running while it has a step to take.
SpecLive == Init /\ [][Next]_vars /\ WF_vars(MainStep)

\* ------------------------------------------------------------------------
\* upload_to_firebase on records of any width, with the termination signal
\* ------------------------------------------------------------------------

\* The widest record given to upload_to_firebase.
MaxSlots == 4

Records == UNION {[1..n -> OptWeights] : n \in 0..MaxSlots}

InitUpload ==
    /\ SCALE_PORTS = ShippedPorts
    /\ pc = "upload"
    /\ scales = << >>
    /\ serial = [i \in Ports |-> "None"]
    /\ failed = [i \in Ports |-> FALSE]
    /\ weights \in Records
    /\ tick = 1
    /\ vAttempt = 0
    /\ raw_reads = 0
    /\ now = Midnight
    /\ script = << >>
    /\ device = [a \in 1..MAX_RECONNECT_ATTEMPTS |-> "opened"]
    /\ Blank

SpecUpload == InitUpload /\ [][UploadToFirebase \/ CleanupAndExit]_vars

\* ------------------------------------------------------------------------
\* get_next_slot on its own (lines 207-210), at every time of the day.
\* ------------------------------------------------------------------------

\* The last day the clock is read on.
MaxDay == 1

SampleSeconds == {0, 27, 59}

SampleMicroseconds == {0, 1, 999999}

Times == [day : 0..MaxDay, hour : 0..23, minute : 0..59, second : SampleSeconds,
          microsecond : SampleMicroseconds]

\* a < b on datetimes
Before(a, b) ==
    \/ TotalMinutes(a) < TotalMinutes(b)
    \/ /\ TotalMinutes(a) = TotalMinutes(b)
       /\ \/ a.second < b.second
          \/ a.second = b.second /\ a.microsecond < b.microsecond

InitSlot ==
    /\ SCALE_PORTS = ShippedPorts
    /\ pc = "get_next_slot"
    /\ scales = << >>
    /\ serial = [i \in Ports |-> "None"]
    /\ failed = [i \in Ports |-> FALSE]
    /\ weights = << >>
    /\ tick = 0
    /\ vAttempt = 0
    /\ raw_reads = 0
    /\ now \in Times
    /\ script = << >>
    /\ device = [a \in 1..MAX_RECONNECT_ATTEMPTS |-> "opened"]
    /\ Blank

\* Lines 208-210.
GetNextSlot ==
    /\ pc = "get_next_slot"
    /\ next_slot' = Some(get_next_slot(now))
    /\ pc' = "slot_returned"
    /\ UNCHANGED <<ci, scales, last_weights, weights, returned, tick,
                   rAttempt, vAttempt, raw_reads, ret, exhausted, now>>
    /\ UNCHANGED scaleVars
    /\ UNCHANGED sinkVars
    /\ UNCHANGED inputVars

SpecSlot == InitSlot /\ [][GetNextSlot]_vars

\* ------------------------------------------------------------------------
\* Scale.connect on its own (lines 86-102), on every sequence of outcomes of
\* its attempts, from every handle and flag the scale can have at the call.
\* ------------------------------------------------------------------------

InitConnect ==
    /\ SCALE_PORTS = ShippedPorts
    /\ pc = "connect"
    /\ scales \in {<< >>, [i \in Ports |-> i]}
    /\ serial \in [Ports -> {"None", "Open", "Closed"}]
    /\ failed \in [Ports -> BOOLEAN]
    /\ weights = << >>
    /\ tick = 0
    /\ vAttempt = 0
    /\ raw_reads = 0
    /\ now = Midnight
    /\ script = << >>
    /\ device \in [1..MAX_RECONNECT_ATTEMPTS -> ConnectOutcomes]
    /\ Blank

\* Lines 86-94 and 100-101: scales[ci].connect() makes its attempts, sleeping
\* between them, and assigns self.serial.
Connect ==
    /\ pc = "connect"
    /\ serial' = [serial EXCEPT ![ci] = connect(device, failed[ci]).serial]
    /\ conn' = [attempts |-> connect(device, failed[ci]).attempts,
                waited |-> connect(device, failed[ci]).waited]
    /\ pc' = IF connect(device, failed[ci]).serial = "Open" THEN "connect_94" ELSE "connect_102"
    /\ UNCHANGED <<ci, scales, failed, last_valid_weight, last_weights, weights, returned,
                   tick, rAttempt, vAttempt, raw_reads, ret, exhausted, SCALE_PORTS, script,
                   device, calls>>
    /\ UNCHANGED sinkVars
    /\ UNCHANGED slotVars

\* Lines 95-96 and 102: the call assigns self.failed and returns.
ConnectReturn ==
    /\ pc \in {"connect_94", "connect_102"}
    /\ failed' = [failed EXCEPT ![ci] = connect(device, failed[ci]).failed]
    /\ pc' = "connected"
    /\ UNCHANGED <<ci, scales, serial, last_valid_weight, last_weights, weights, returned,
                   tick, rAttempt, vAttempt, raw_reads, ret, exhausted>>
    /\ UNCHANGED sinkVars
    /\ UNCHANGED slotVars
    /\ UNCHANGED inputVars

SpecConnect == InitConnect /\ [][Connect \/ ConnectReturn \/ CleanupAndExit]_vars

\* ------------------------------------------------------------------------
\* Scale.read_weight on its own (lines 104-123): one call on scale ci, from
\* every handle and flag, the device answering attempt k with script[k] when
\* that attempt gets to its read.
\* ------------------------------------------------------------------------

InitRead ==
    /\ SCALE_PORTS = ShippedPorts
    /\ pc = "rw"
    /\ scales \in {<< >>, [i \in Ports |-> i]}
    /\ \E handle \in {"None", "Open", "Closed"} : serial = [i \in Ports |-> handle]
    /\ \E flag \in BOOLEAN : failed = [i \in Ports |-> flag]
    /\ weights = << >>
    /\ tick = 1
    /\ vAttempt = -1
    /\ raw_reads = 1
    /\ now = Midnight
    /\ script \in [1..max_attempts -> Reads]
    /\ device = [a \in 1..MAX_RECONNECT_ATTEMPTS |-> "opened"]
    /\ Blank

\* Lines 105-109: the connect() of line 109 of the current attempt, counted.
ReadWeightConnect ==
    /\ pc = "rw"
    /\ Reconnects(serial[ci])
    /\ \E run1 \in ConnectRuns : ConnectAssignsHandle(run1, "rw_c94", "rw_c102")
    /\ calls' = 1
    /\ UNCHANGED <<ci, scales, failed, last_valid_weight, last_weights, weights, returned,
                   tick, rAttempt, vAttempt, raw_reads, ret, exhausted, SCALE_PORTS, script,
                   device, conn>>
    /\ UNCHANGED sinkVars
    /\ UNCHANGED slotVars

\* Lines 95-96 or 102, then 110-111 or 121: the connect() call of the current
\* attempt assigns self.failed and returns.
ReadWeightConnected ==
    /\ InConnect
    /\ ConnectAssignsFailed
    /\ IF pc = "rw_c94"
       THEN pc' = "rw_read" /\ rAttempt' = rAttempt /\ ret' = ret
       ELSE NextAttempt
    /\ UNCHANGED <<ci, scales, serial, last_valid_weight, last_weights, weights, returned,
                   tick, vAttempt, raw_reads>>
    /\ UNCHANGED sinkVars
    /\ UNCHANGED slotVars
    /\ UNCHANGED inputVars

\* Lines 112-121: the read of the current attempt, which gives
\* script[attempt]; the connect() of line 120 is counted.
ReadWeightRead ==
    /\ AtRead
    /\ IF ReadAndDecode(script[rAttempt + 1]).ends = "reconnect"
       THEN /\ \E run2 \in ConnectRuns : ConnectAssignsHandle(run2, "rx_c94", "rx_c102")
            /\ calls' = (IF pc = "rw_read" THEN calls ELSE 0) + 1
            /\ UNCHANGED <<rAttempt, ret>>
       ELSE /\ UNCHANGED serial
            /\ calls' = IF pc = "rw_read" THEN calls ELSE 0
            /\ RwEnds(ReadAndDecode(script[rAttempt + 1]))
    /\ UNCHANGED <<ci, scales, failed, last_valid_weight, last_weights, weights, returned,
                   tick, vAttempt, raw_reads, exhausted, SCALE_PORTS, script, device, conn>>
    /\ UNCHANGED sinkVars
    /\ UNCHANGED slotVars

SpecRead ==
    InitRead /\ [][ReadWeightConnect \/ ReadWeightConnected \/ ReadWeightRead
                   \/ CleanupAndExit]_vars

\* ------------------------------------------------------------------------
\* Properties
\* ------------------------------------------------------------------------

\* The main thread is inside get_validated_weight.
Polling ==
    pc \in {"rw", "rw_c94", "rw_c102", "rw_read", "rx_c94", "rx_c102", "rw_ret"}

InTick == pc = "poll" \/ Polling \/ pc \in {"gvw_ret", "csv", "upload", "upload_303", "check"}

\* The main loop is between two ticks: at the top of a turn or in its sleep.
BetweenTicks == pc \in {"loop", "sleep"}

RecordBuilt == pc \in {"csv", "upload", "upload_303", "check"}

\* The last configured channel.
LastPort == Len(SCALE_PORTS)

\* |w - b| <= WEIGHT_VALIDATION_THRESHOLD and |w - b| = WEIGHT_VALIDATION_THRESHOLD
\* for each pair of weights of the model, the difference taken as the program
\* takes it, in float arithmetic (0.60 - 0.10 is 0.5; 1.10 - 0.60 is
\* 0.5000000000000001).
Within ==
    [w \in Weights |-> [b \in Weights |->
        FLe(FAbs(FSub(w, b)), WEIGHT_VALIDATION_THRESHOLD)]]

AtThreshold ==
    [w \in Weights |-> [b \in Weights |->
        FEq(FAbs(FSub(w, b)), WEIGHT_VALIDATION_THRESHOLD)]]

\* C1: upload_to_firebase sends the first three slots to the first
\* destination and, only for a record of four or more slots, a second record
\* to the second destination whose weight is the fourth slot.  (SpecUpload)
C1_FourthSlotToSecondDestination ==
    pc = "check" =>
        /\ \A k \in DOMAIN pushed_304 :
               pushed_304[k].weights = SubSeq(weights, 1, Min(3, Len(weights)))
        /\ Len(weights) <= 3 => pushed_303 = << >>
        /\ Len(weights) > 3 =>
               \A k \in DOMAIN pushed_303 : pushed_303[k].weight1 = weights[4]

\* C2, as claimed: at the fleet-recovery check, every scale whose validated
\* read returned a value in this tick has its failed flag false.
C2_SuccessMeansNotFailed ==
    pc = "check" => \A i \in Ports : ~IsNone(returned[i]) => ~failed[i]

\* C2, amended: main never clears a failed flag.  When the validated read of a
\* scale returns a value, main leaves that scale's flag as it was, and the
\* flag of a scale already polled keeps its value up to the fleet-recovery
\* check; so a flag set in an earlier tick, or by a connect() that ran out of
\* attempts before the fallback value was returned, is still set at the check.
C2_SuccessKeepsFailed ==
    [][/\ (pc = "gvw_ret" /\ ~IsNone(ret)) => failed'[ci] = failed[ci]
       /\ \A i \in Ports :
              (InTick /\ (i < ci \/ RecordBuilt)) => failed'[i] = failed[i]]_vars

\* C2, witness: at the check, a scale whose validated read returned a value
\* has its failed flag set.
C2_Witness ==
    pc = "check" /\ \E i \in Ports : ~IsNone(returned[i]) /\ failed[i]

\* C3, as claimed: a scale whose connect() ran out of attempts during this
\* tick has its failed flag set for the rest of the tick.
C3_FailedSticky == \A i \in exhausted : failed[i]

\* C3, amended: a failed flag that is set stays set until a later connect() of
\* that scale opens the port, which clears it (also within the same tick);
\* no read, decode or main-loop step clears it.
C3_ClearedOnlyByOpen ==
    [][/\ \A i \in Ports :
              (failed[i] /\ ~failed'[i]) =>
                  /\ pc \in {"rw_c94", "rx_c94"}
                  /\ ci = i
                  /\ pc' # "exited"
                  /\ serial[i] = "Open"
                  /\ serial'[i] = "Open"
       /\ (pc \in {"rw_c94", "rx_c94"} /\ pc' # "exited") => ~failed'[ci]]_vars

\* C3, witness: within a tick, a scale whose connect() ran out of attempts has
\* reconnected and its flag is clear again.
C3_Witness ==
    InTick /\ \E i \in exhausted : ~failed[i] /\ serial[i] = "Open"

\* C4, as claimed: every record built on the second or a later tick has a
\* numeric value in every slot.
C4_NoneOnlyOnFirstTick ==
    (RecordBuilt /\ tick >= 2) => \A k \in DOMAIN weights : ~IsNone(weights[k])

\* C4, amended: on any tick, a slot of the record is None exactly when its
\* scale has never produced a reading (it has no baseline); a scale that has
\* produced a reading has a numeric slot in every later record.
C4_NoneIffNoBaseline ==
    RecordBuilt =>
        /\ Len(weights) = LastPort
        /\ \A i \in Ports : IsNone(weights[i]) <=> IsNone(last_valid_weight[i])

\* C4, witness: a record built on a tick after the first has a None slot.
C4_Witness ==
    RecordBuilt /\ tick >= 2 /\ \E k \in DOMAIN weights : IsNone(weights[k])

\* C5: when the process has exited on a termination signal, no serial
\* connection it opened is still open.
C5_AllClosedAtExit ==
    pc = "exited" => \A i \in Ports : serial[i] # "Open"

\* C6: with a baseline b, a successful raw read w is returned and becomes the
\* baseline if and only if |w - b| <= WEIGHT_VALIDATION_THRESHOLD, the
\* difference taken in float arithmetic; otherwise
\* the baseline is unchanged and another raw read follows, with at most
\* MAX_VALIDATION_RETRIES raw reads in one call, the reads without a reading
\* counted.
C6_ConsistencyGate ==
    [][/\ raw_reads <= MAX_VALIDATION_RETRIES
       /\ (pc = "rw_ret" /\ vAttempt >= 0 /\ pc' # "exited") =>
              IF ~IsNone(ret) /\ Within[Val(ret)][Val(last_valid_weight[ci])]
              THEN /\ pc' = "gvw_ret"
                   /\ ret' = ret
                   /\ last_valid_weight'[ci] = ret
              ELSE /\ last_valid_weight' = last_valid_weight
                   /\ IF raw_reads < MAX_VALIDATION_RETRIES
                      THEN pc' = "rw" /\ raw_reads' = raw_reads + 1
                      ELSE pc' = "gvw_ret" /\ ret' # ret]_vars

\* C6, witness: after a retry, a raw read exactly WEIGHT_VALIDATION_THRESHOLD
\* away from the value of the previous tick has been accepted and is the new
\* baseline.
C6_Witness ==
    /\ pc = "gvw_ret"
    /\ vAttempt >= 1
    /\ ~IsNone(ret)
    /\ last_valid_weight[ci] = ret
    /\ ~IsNone(last_weights[ci])
    /\ AtThreshold[Val(ret)][Val(last_weights[ci])]

\* C7: with a baseline, when the last of the MAX_VALIDATION_RETRIES raw reads
\* gives no reading or a reading outside the threshold, the call returns the
\* baseline, not "no reading", and leaves the baseline as it was.
C7_FallbackToBaseline ==
    [][(/\ pc = "rw_ret"
        /\ vAttempt = MAX_VALIDATION_RETRIES - 1
        /\ pc' # "exited"
        /\ \/ IsNone(ret)
           \/ ~Within[Val(ret)][Val(last_valid_weight[ci])])
       => /\ pc' = "gvw_ret"
          /\ ~IsNone(ret')
          /\ ret' = last_valid_weight[ci]
          /\ last_valid_weight' = last_valid_weight]_vars

\* C7, witness: the call returns its baseline after MAX_VALIDATION_RETRIES raw
\* reads, the last of which gave no reading (the port has no handle).
C7_Witness ==
    /\ pc = "gvw_ret"
    /\ raw_reads = MAX_VALIDATION_RETRIES
    /\ serial[ci] = "None"
    /\ ~IsNone(ret)
    /\ ret = last_valid_weight[ci]

\* C8: without a baseline the call makes exactly one raw read; a reading is
\* returned and recorded as the baseline whatever its value, and "no reading"
\* is returned with the baseline still absent.
C8_FirstReading ==
    [][/\ (pc = "poll" /\ pc' # "exited") =>
              (vAttempt' = -1 <=> IsNone(last_valid_weight[ci]))
       /\ (pc = "rw_ret" /\ vAttempt = -1 /\ pc' # "exited") =>
              /\ raw_reads = 1
              /\ pc' = "gvw_ret"
              /\ ret' = ret
              /\ last_valid_weight'[ci] = ret]_vars

\* C8, witness: the first reading of a scale has been returned and is its
\* baseline.
C8_Witness ==
    pc = "gvw_ret" /\ vAttempt = -1 /\ ~IsNone(ret) /\ last_valid_weight[ci] = ret

\* C9: a tick runs the reboot command once when any failed flag is set, however
\* many are set, and not at all otherwise, whatever the CSV append and the
\* upload did.
C9_RebootOncePerTick ==
    /\ InTick => reboots = 0
    /\ (BetweenTicks /\ tick >= 1) =>
           reboots = IF \E i \in Ports : failed[i] THEN 1 ELSE 0

\* C9, witness: a tick has ended with two failed flags set, and with nothing
\* written to the CSV file or pushed, and the reboot command has run once.
C9_Witness ==
    /\ pc = "loop"
    /\ tick >= 1
    /\ Cardinality({i \in Ports : failed[i]}) >= 2
    /\ csv_file.rows = << >>
    /\ pushed_304 = << >>
    /\ reboots = 1

\* C10: get_next_slot returns the smallest time strictly after now whose
\* second and microsecond are zero and whose minute is a multiple of 10;
\* 10:03:27 gives 10:10:00 and 10:10:00 gives 10:20:00.  (SpecSlot)
C10_NextSlot ==
    pc = "slot_returned" =>
        LET slot == Val(next_slot)
        IN /\ slot.second = 0
           /\ slot.microsecond = 0
           /\ slot.minute % 10 = 0
           /\ slot.hour \in 0..23
           /\ slot.minute \in 0..59
           /\ Before(now, slot)
           /\ ~Before(now, PlusMinutes(slot, -10))
           /\ (now.hour = 10 /\ now.minute = 3 /\ now.second = 27)
                  => (slot.day = now.day /\ slot.hour = 10 /\ slot.minute = 10)
           /\ (now.hour = 10 /\ now.minute = 10 /\ now.second = 0 /\ now.microsecond = 0)
                  => (slot.day = now.day /\ slot.hour = 10 /\ slot.minute = 20)

\* C10, witness: a time in the last ten minutes of a day, whose slot is
\* midnight of the next day.
C10_Witness ==
    /\ pc = "slot_returned"
    /\ now.hour = 23
    /\ now.minute >= 50
    /\ Val(next_slot).day = now.day + 1
    /\ Val(next_slot).hour = 0
    /\ Val(next_slot).minute = 0

\* C11: channels are polled one after another in configured order; while
\* channel ci is polled the record holds the slots of the channels before it,
\* and every record handed to the sinks has one slot per configured channel,
\* slot i holding the value channel i returned or, when it returned no
\* reading, the value remembered for channel i.
C11_OneSlotPerChannel ==
    /\ (pc = "poll" \/ Polling \/ pc = "gvw_ret") =>
           /\ ci \in Ports
           /\ Len(weights) = ci - 1
           /\ Len(returned) = ci - 1
    /\ InTick =>
           \A i \in 1..Len(weights) :
               weights[i] = IF IsNone(returned[i]) THEN last_weights[i] ELSE returned[i]
    /\ RecordBuilt => Len(weights) = LastPort /\ Len(returned) = LastPort

\* C11, witness: a record in which the first channel gave a reading and the
\* last channel gave none.
C11_Witness ==
    /\ RecordBuilt
    /\ ~IsNone(returned[1])
    /\ weights[1] = returned[1]
    /\ IsNone(returned[LastPort])
    /\ weights[LastPort] = last_weights[LastPort]

\* C12: one connect() makes at most MAX_RECONNECT_ATTEMPTS attempts, an
\* attempt that finds the path missing counting and waiting RECONNECT_DELAY
\* like a failed open.  If no attempt opens the port it ends with no handle
\* and failed set; otherwise it returns at the first attempt that opens the
\* port, with a handle and failed clear, whatever they were.  (SpecConnect)
C12_ConnectCap ==
    pc = "connected" =>
        LET opens == {a \in 1..MAX_RECONNECT_ATTEMPTS : device[a] = "opened"}
            first == CHOOSE a \in opens : \A b \in opens : a <= b
        IN /\ conn.attempts \in 1..MAX_RECONNECT_ATTEMPTS
           /\ (serial[ci] = "None" /\ failed[ci]) <=> opens = {}
           /\ opens = {} =>
                  /\ conn.attempts = MAX_RECONNECT_ATTEMPTS
                  /\ conn.waited = MAX_RECONNECT_ATTEMPTS * RECONNECT_DELAY
           /\ opens # {} =>
                  /\ serial[ci] = "Open"
                  /\ ~failed[ci]
                  /\ conn.attempts = first
                  /\ conn.waited = (first - 1) * RECONNECT_DELAY

\* C12, witness: the path is missing at attempts 1 and 2, the open fails at
\* attempts 3 and 4, and the last attempt opens the port of a scale that was
\* failed.
C12_Witness ==
    /\ pc = "connected"
    /\ device[1] = "missing" /\ device[2] = "missing"
    /\ device[3] = "open_fails" /\ device[4] = "open_fails"
    /\ device[MAX_RECONNECT_ATTEMPTS] = "opened"
    /\ conn.attempts = MAX_RECONNECT_ATTEMPTS
    /\ serial[ci] = "Open"
    /\ ~failed[ci]

\* C13: read_weight never raises.  Whatever the device does, every attempt
\* ends by returning or by going on to the next attempt; a weight decoded by
\* an attempt is returned at once; "no reading" is returned only when the
\* last of the max_attempts attempts gave none; an attempt calls connect() at
\* most twice.  (SpecRead)
C13_ReadNeverRaises ==
    [][((pc = "rw" \/ pc = "rw_read" \/ InConnect) /\ pc' # "exited") =>
          LET r == script[rAttempt + 1]
              decoded == AtRead /\ ~r.io_error /\ Decoded[r.line].kind = "weight"
          IN /\ rAttempt < max_attempts
             /\ pc' = "rw" \/ pc' = "rw_read" \/ pc' = "rw_ret" \/ InConnect'
             /\ pc' = "rw" => rAttempt' = rAttempt + 1
             /\ pc' = "rw_read" =>
                    pc = "rw_c94" /\ rAttempt' = rAttempt /\ serial'[ci] = "Open"
             /\ InConnect' => ~InConnect /\ rAttempt' = rAttempt
             /\ decoded => pc' = "rw_ret" /\ ret' = Some(Decoded[r.line].value)
             /\ (pc' = "rw_ret" /\ ~IsNone(ret')) =>
                    decoded /\ ret' = Some(Decoded[r.line].value)
             /\ (pc' = "rw_ret" /\ IsNone(ret')) => rAttempt = max_attempts - 1
             /\ calls' <= 2]_vars

\* C13, witness: "no reading" returned after the last attempt reconnected,
\* read a line whose numeric field is malformed and failed to reconnect.
C13_Witness ==
    /\ pc = "rw_ret"
    /\ IsNone(ret)
    /\ ~script[max_attempts].io_error
    /\ script[max_attempts].line = LineBad
    /\ calls = 2
    /\ serial[ci] = "None"

\* C16: the read of an attempt of read_weight whose line fails to decode (no
\* "kg", or "kg" with a malformed numeric field) calls connect() not at all
\* and leaves the scale's handle and failed flag as they were.  (SpecRead)
C16_DecodeFailureNoReconnect ==
    [][(/\ AtRead
        /\ pc' # "exited"
        /\ ~script[rAttempt + 1].io_error
        /\ Decoded[script[rAttempt + 1].line].kind \in {"none", "error"})
       => /\ calls' = IF pc = "rw_read" THEN calls ELSE 0
          /\ serial'[ci] = serial[ci]
          /\ failed'[ci] = failed[ci]]_vars

\* C14: a tick goes through its steps in the order record, CSV append,
\* upload, fleet-recovery check, each step once and on the same record,
\* whether the CSV row was written and whether any push succeeded (the upload
\* gives up after max_retries attempts); after the check the loop is back at
\* its sleep, from which the next tick starts.
C14_TickOrder ==
    [][pc' # "exited" =>
          /\ pc' = "csv" => pc = "gvw_ret" /\ ci = LastPort
          /\ pc = "csv" =>
                 /\ pc' = "upload"
                 /\ uAttempt' = 0
                 /\ csv_file'.rows \in {csv_file.rows,
                                        Append(csv_file.rows, CsvRow(tick, weights))}
          /\ pc' = "upload" => pc \in {"csv", "upload", "upload_303"}
          /\ pc \in {"upload", "upload_303"} =>
                 /\ pc' \in {"upload", "upload_303", "check"}
                 /\ uAttempt < max_retries
                 /\ pc' = "upload" => uAttempt' = uAttempt + 1
                 /\ Len(pushed_304') <= max_retries
          /\ pc' = "upload_303" => pc = "upload" /\ uAttempt' = uAttempt
          /\ pc' = "check" => pc \in {"upload", "upload_303"}
          /\ pc = "check" => pc' = "loop"
          /\ pc' = "loop" => pc \in {"check", "register"}
          /\ pc = "loop" => pc' = "sleep" /\ tick' = tick
          /\ pc' = "sleep" => pc = "loop"
          /\ pc = "sleep" => pc' = "poll" /\ tick' = tick + 1
          /\ RecordBuilt => weights' = weights /\ tick' = tick]_vars

\* C14, witness: the fleet-recovery check of the second tick is reached
\* although the CSV file, created by the first tick, has neither header nor
\* row and no push of this tick succeeded.
C14_Witness ==
    /\ pc = "check"
    /\ tick = 2
    /\ csv_file.exists
    /\ csv_file.header = 0
    /\ csv_file.rows = << >>
    /\ pushed_304 = << >>
    /\ pushed_303 = << >>

\* C15: a baseline, once set, is never None again; get_validated_weight
\* returns "no reading" only on a scale without a baseline, so main marks a
\* scale failed for a missing reading only if the scale has no baseline, and
\* every call on a scale with a baseline returns a number.
C15_BaselineNeverLost ==
    [][pc' # "exited" =>
          /\ \A i \in Ports :
                 ~IsNone(last_valid_weight[i]) => ~IsNone(last_valid_weight'[i])
          /\ pc' = "gvw_ret" => (IsNone(ret') <=> IsNone(last_valid_weight'[ci]))
          /\ (pc = "poll" /\ ~IsNone(last_valid_weight[ci])) => vAttempt' >= 0
          /\ (pc = "gvw_ret" /\ IsNone(ret)) =>
                 IsNone(last_valid_weight[ci]) /\ failed'[ci]]_vars

\* C15, witness: on the second tick a scale with a baseline, whose port has no
\* handle after connect() ran out of attempts, returns a number.
C15_Witness ==
    /\ pc = "gvw_ret"
    /\ tick = 2
    /\ ci \in exhausted
    /\ failed[ci]
    /\ serial[ci] = "None"
    /\ ~IsNone(ret)
    /\ ~IsNone(last_weights[ci])

\* C17: when main receives a number from a scale whose slot of the previous
\* record was a number, the two differ by at most
\* WEIGHT_VALIDATION_THRESHOLD, the difference taken in float arithmetic.  A
\* raw read that gives no reading, or one
\* further than the threshold from the baseline, leaves the baseline as it
\* is, and a call in which no read moved the baseline reports the value of
\* the previous record again.
C17_BoundedDrift ==
    [][pc' # "exited" =>
          /\ (pc = "gvw_ret" /\ ~IsNone(ret) /\ ~IsNone(last_weights[ci])) =>
                 /\ weights'[ci] = ret
                 /\ Within[Val(weights'[ci])][Val(last_weights[ci])]
                 /\ last_valid_weight[ci] = last_weights[ci] =>
                        weights'[ci] = last_weights[ci]
          /\ (/\ pc = "rw_ret"
              /\ vAttempt >= 0
              /\ \/ IsNone(ret)
                 \/ ~Within[Val(ret)][Val(last_valid_weight[ci])])
             => last_valid_weight' = last_valid_weight]_vars

\* C17, witness: on the second tick the first raw read of a scale is accepted
\* and differs from the value the scale reported on the first tick.
C17_Witness ==
    /\ pc = "gvw_ret"
    /\ tick = 2
    /\ vAttempt = 0
    /\ ~IsNone(ret)
    /\ ~IsNone(last_weights[ci])
    /\ ret # last_weights[ci]

\* C18: once a scale has been polled in a tick, and from then on while the
\* main loop runs, main's remembered value for it equals the scale's
\* baseline (both None, or the same number); so the value main substitutes
\* when a scale returns no reading is None.
C18_RememberedIsBaseline ==
    /\ (InTick \/ BetweenTicks) =>
           \A i \in Ports :
               (tick >= 1 /\ (i < ci \/ RecordBuilt \/ BetweenTicks))
                   => last_weights[i] = last_valid_weight[i]
    /\ InTick =>
           \A i \in 1..Len(weights) : IsNone(returned[i]) => IsNone(weights[i])

\* C18, witness: a record whose first scale returned a number, remembered by
\* main and equal to its baseline, and whose last scale returned no reading
\* and has a None slot.
C18_Witness ==
    /\ pc = "check"
    /\ ~IsNone(returned[1])
    /\ last_weights[1] = returned[1]
    /\ last_valid_weight[1] = returned[1]
    /\ IsNone(returned[LastPort])
    /\ IsNone(weights[LastPort])
    /\ failed[LastPort]

\* C19: across all attempts of one upload_to_firebase call, each of the two
\* references receives at most one record.  (SpecUpload)
C19_AtMostOnePushPerDestination ==
    pc = "check" => Len(pushed_304) <= 1 /\ Len(pushed_303) <= 1

\* C20: a tick that has started polling eventually has its record built and
\* at the CSV append, whatever the devices do, unless a termination signal
\* ends the process first: a get_validated_weight call makes at most
\* MAX_VALIDATION_RETRIES raw reads of at most max_attempts attempts each.
\* (SpecLive)
C20_TickCompletes ==
    /\ [](raw_reads <= MAX_VALIDATION_RETRIES /\ rAttempt < max_attempts)
    /\ \A t \in 1..MaxTicks :
           (pc = "poll" /\ tick = t /\ ci = 1)
               ~> ((pc = "csv" /\ tick = t /\ Len(weights) = LastPort) \/ pc = "exited")

\* C20, witness: the record of the second tick is built after the last scale,
\* with a baseline, used all its raw reads while its port had no handle.
C20_Witness ==
    /\ pc = "csv"
    /\ tick = 2
    /\ Len(weights) = LastPort
    /\ LastPort \in exhausted
    /\ serial[LastPort] = "None"
    /\ ~IsNone(weights[LastPort])

=============================================================================
